---- MODULE Spec2Model ----
(***************************************************************************)
(* Model of zeturn: the Result constructors Ok / Err and the Zeturn        *)
(* field-extraction helper (static and instance codeFromError /            *)
(* msgFromError), over a heap of JavaScript objects with identity.         *)
(***************************************************************************)
EXTENDS Integers, Sequences, FiniteSets, TLC

VARIABLES
    heap,            \* JS object store: address -> object (field -> value)
    rets,            \* history of Ok / Err calls made by callers
    lastOp,          \* the operation that produced the current state
    muts,            \* number of caller-side writes to the argument record
    error,           \* the caught value handed to the extraction helpers
    NOT_FOUND_CODE,  \* Zeturn.NOT_FOUND_CODE (static field)
    NOT_FOUND_MSG,   \* Zeturn.NOT_FOUND_MSG (static field)
    instances,       \* constructed Zeturn instances
    ctorLog,         \* history of `new Zeturn(opt)` evaluations
    log              \* history of extraction calls

vars == <<heap, rets, lastOp, muts, error, NOT_FOUND_CODE, NOT_FOUND_MSG,
          instances, ctorLog, log>>

resultVars == <<rets, lastOp, muts>>
zeturnVars == <<error, NOT_FOUND_CODE, NOT_FOUND_MSG, instances, ctorLog, log>>

\* ------------------------------------------------------------------ bounds
MaxCalls == 2
MaxMut == 1
MaxInst == 2
MaxExtract == 2

\* ------------------------------------------------------- JavaScript values
\* Every value is a record of the same shape, so values of different JS
\* types can be compared.
Undefined == [t |-> "undefined", s |-> "", n |-> 0]
Null == [t |-> "null", s |-> "", n |-> 0]
Absent == [t |-> "absent", s |-> "", n |-> 0]   \* no such own property
Str(s) == [t |-> "string", s |-> s, n |-> 0]
Num(n) == [t |-> "number", s |-> "", n |-> n]
Bool(b) == [t |-> "boolean", s |-> "", n |-> IF b THEN 1 ELSE 0]
Ref(a) == [t |-> "object", s |-> "", n |-> a]

IsObject(v) == v.t = "object"
IsNullish(v) == v.t \in {"undefined", "null"}

\* ToBoolean(v): what `!v` and `v || d` test.
Truthy(v) ==
    CASE v.t = "string" -> v.s # ""
      [] v.t = "number" -> v.n # 0
      [] v.t = "boolean" -> v.n = 1
      [] v.t = "object" -> TRUE
      [] OTHER -> FALSE

\* a || b
Or(a, b) == IF Truthy(a) THEN a ELSE b

Fields == {"ok", "data", "err", "code", "msg", "show", "extra", "message",
           "notFoundCode", "notFoundMsg"}

EmptyObj == [f \in Fields |-> Absent]

\* An object literal { f1: v1, ... } given as a set of <<field, value>>.
Literal(props) ==
    [f \in Fields |-> IF \E p \in props : p[1] = f
                      THEN (CHOOSE p \in props : p[1] = f)[2]
                      ELSE Absent]

\* new object at the next free address
Alloc(h, obj) == Append(h, obj)

\* v.f on a value that is not null/undefined: a missing property, and any
\* property of a primitive, reads as undefined.
Get(h, v, f) ==
    IF IsObject(v) /\ h[v.n][f] # Absent THEN h[v.n][f] ELSE Undefined

\* v?.f
GetOpt(h, v, f) == IF IsNullish(v) THEN Undefined ELSE Get(h, v, f)

\* the own enumerable properties copied by { ...v }
Spread(h, v) == IF IsObject(v) THEN h[v.n] ELSE EmptyObj

\* the i-th actual parameter; a parameter that was not passed is undefined
Arg(args, i) == IF Len(args) >= i THEN args[i] ELSE Undefined

\* snapshot of the object a value refers to
Snap(h, v) == IF IsObject(v) THEN h[v.n] ELSE EmptyObj

\* ------------------------------------------------------------ Result module
NO_ERROR_CODE == "no_error_code"

\* Ok with a defaulted payload: data ?? null
Ok_nullDefault(h, args) ==
    LET data == IF IsNullish(Arg(args, 1)) THEN Null ELSE Arg(args, 1)
        h1 == Alloc(h, Literal({<<"ok", Bool(TRUE)>>, <<"data", data>>}))
    IN  [outcome |-> "return", heap |-> h1, ret |-> Ref(Len(h1))]

\* Ok that also writes an err slot: { ok: true, data, err: undefined }
Ok_withErr(h, args) ==
    LET data == Arg(args, 1)
        h1 == Alloc(h, Literal({<<"ok", Bool(TRUE)>>, <<"data", data>>,
                                <<"err", Undefined>>}))
    IN  [outcome |-> "return", heap |-> h1, ret |-> Ref(Len(h1))]

\* function Ok<T>(data?: T) { return { ok: true, data } }
Ok(h, args) ==
    LET data == Arg(args, 1)
        h1 == Alloc(h, Literal({<<"ok", Bool(TRUE)>>, <<"data", data>>}))
    IN  [outcome |-> "return", heap |-> h1, ret |-> Ref(Len(h1))]

\* Err testing `err.code === undefined` instead of `!err?.code`
Err_strictUndefined(h, args) ==
    LET _err == Arg(args, 1)
        noCode == GetOpt(h, _err, "code") = Undefined
        h1 == IF noCode
              THEN Alloc(h, [Spread(h, _err) EXCEPT !["code"] = Str(NO_ERROR_CODE)])
              ELSE h
        err1 == IF noCode THEN Ref(Len(h1)) ELSE _err
        noShow == ~Truthy(GetOpt(h1, err1, "show"))
        h2 == IF noShow
              THEN Alloc(h1, [Spread(h1, err1) EXCEPT !["show"] = Bool(FALSE)])
              ELSE h1
        err2 == IF noShow THEN Ref(Len(h2)) ELSE err1
        h3 == Alloc(h2, Literal({<<"ok", Bool(FALSE)>>, <<"err", err2>>}))
    IN  [outcome |-> "return", heap |-> h3, ret |-> Ref(Len(h3))]

\* Err reading `err.code` without optional chaining
Err_noChain(h, args) ==
    LET _err == Arg(args, 1)
        noCode == ~Truthy(Get(h, _err, "code"))
        h1 == IF noCode
              THEN Alloc(h, [Spread(h, _err) EXCEPT !["code"] = Str(NO_ERROR_CODE)])
              ELSE h
        err1 == IF noCode THEN Ref(Len(h1)) ELSE _err
        noShow == ~Truthy(GetOpt(h1, err1, "show"))
        h2 == IF noShow
              THEN Alloc(h1, [Spread(h1, err1) EXCEPT !["show"] = Bool(FALSE)])
              ELSE h1
        err2 == IF noShow THEN Ref(Len(h2)) ELSE err1
        h3 == Alloc(h2, Literal({<<"ok", Bool(FALSE)>>, <<"err", err2>>}))
    IN  IF IsNullish(_err)
        THEN [outcome |-> "TypeError", heap |-> h, ret |-> Undefined]
        ELSE [outcome |-> "return", heap |-> h3, ret |-> Ref(Len(h3))]

\* function Err(_err: ArgErr)
Err(h, args) ==
    LET _err == Arg(args, 1)
        noCode == ~Truthy(GetOpt(h, _err, "code"))
        h1 == IF noCode
              THEN Alloc(h, [Spread(h, _err) EXCEPT !["code"] = Str(NO_ERROR_CODE)])
              ELSE h
        err1 == IF noCode THEN Ref(Len(h1)) ELSE _err
        noShow == ~Truthy(GetOpt(h1, err1, "show"))
        h2 == IF noShow
              THEN Alloc(h1, [Spread(h1, err1) EXCEPT !["show"] = Bool(FALSE)])
              ELSE h1
        err2 == IF noShow THEN Ref(Len(h2)) ELSE err1
        h3 == Alloc(h2, Literal({<<"ok", Bool(FALSE)>>, <<"err", err2>>}))
    IN  [outcome |-> "return", heap |-> h3, ret |-> Ref(Len(h3))]

\* Argument records a caller may build for Err: code?, msg, show?, plus a
\* field the library does not know.
CodeInputs == {Absent, Undefined, Null, Str(""), Num(0), Str("E1")}
MsgInputs == {Absent, Str("bad")}
ShowInputs == {Absent, Bool(FALSE), Bool(TRUE)}
ExtraInputs == {Absent, Num(7)}

ArgRecords ==
    {Literal({<<"code", c>>, <<"msg", m>>, <<"show", s>>, <<"extra", x>>}) :
        c \in CodeInputs, m \in MsgInputs, s \in ShowInputs, x \in ExtraInputs}

\* address of the caller's record
X == Ref(1)

OkArgs == {<<>>, <<X>>, <<Null>>, <<Str("url")>>}
ErrArgs == {<<X>>, <<>>, <<Null>>, <<Bool(TRUE)>>}

Entry(fn, h, args, r) ==
    [fn |-> fn, args |-> args, argSnap |-> Snap(h, Arg(args, 1)),
     base |-> Len(h), outcome |-> r.outcome,
     ret |-> IF r.outcome = "return" THEN r.ret ELSE Undefined]

\* a caller evaluates Ok(...args)
CallOk(args) ==
    /\ Len(rets) < MaxCalls
    /\ LET r == Ok(heap, args)
       IN  /\ heap' = IF r.outcome = "return" THEN r.heap ELSE heap
           /\ rets' = Append(rets, Entry("Ok", heap, args, r))
    /\ lastOp' = "Ok"
    /\ UNCHANGED <<muts, zeturnVars>>

\* a caller evaluates Err(...args)
CallErr(args) ==
    /\ Len(rets) < MaxCalls
    /\ LET r == Err(heap, args)
       IN  /\ heap' = IF r.outcome = "return" THEN r.heap ELSE heap
           /\ rets' = Append(rets, Entry("Err", heap, args, r))
    /\ lastOp' = "Err"
    /\ UNCHANGED <<muts, zeturnVars>>

\* the caller later writes to the record it built: x.f = v
Mutate(f, v) ==
    /\ muts < MaxMut
    /\ heap[1][f] # v
    /\ heap' = [heap EXCEPT ![1][f] = v]
    /\ muts' = muts + 1
    /\ lastOp' = "Mutate"
    /\ UNCHANGED <<rets, zeturnVars>>

InitResult ==
    /\ heap \in {<<x>> : x \in ArgRecords}
    /\ rets = <<>>
    /\ lastOp = "init"
    /\ muts = 0
    /\ error = Undefined
    /\ NOT_FOUND_CODE = "zeturn_unknown"
    /\ NOT_FOUND_MSG = "zeturn: unknown"
    /\ instances = <<>>
    /\ ctorLog = <<>>
    /\ log = <<>>

NextResult ==
    \/ \E args \in OkArgs : CallOk(args)
    \/ \E args \in ErrArgs : CallErr(args)
    \/ \E f \in {"code", "msg"}, v \in {Str("E2")} : Mutate(f, v)

Spec == InitResult /\ [][NextResult]_vars

\* ------------------------------------------------------------ Zeturn class
\* constructor whose message default falls back through the code override
ZeturnCtor_sharedFallback(h, opt) ==
    IF IsNullish(opt)
    THEN [outcome |-> "TypeError",
          self |-> [notFoundCode |-> Undefined, notFoundMsg |-> Undefined]]
    ELSE [outcome |-> "return",
          self |-> [notFoundCode |-> Or(Get(h, opt, "notFoundCode"), Str(NOT_FOUND_CODE)),
                    notFoundMsg |-> Or(Get(h, opt, "notFoundMsg"),
                                       Or(Get(h, opt, "notFoundCode"), Str(NOT_FOUND_MSG)))]]

\* constructor(opt): opt.notFoundCode is read without optional chaining, so
\* a null or undefined opt raises a TypeError before any field is set.
ZeturnCtor(h, opt) ==
    IF IsNullish(opt)
    THEN [outcome |-> "TypeError",
          self |-> [notFoundCode |-> Undefined, notFoundMsg |-> Undefined]]
    ELSE [outcome |-> "return",
          self |-> [notFoundCode |-> Or(Get(h, opt, "notFoundCode"), Str(NOT_FOUND_CODE)),
                    notFoundMsg |-> Or(Get(h, opt, "notFoundMsg"), Str(NOT_FOUND_MSG))]]

\* static codeFromError reading `error.code` without optional chaining
Zeturn_codeFromError_noChain(h, e) ==
    LET errCode == Get(h, e, "code")
    IN  IF IsNullish(e)
        THEN [outcome |-> "TypeError", value |-> Undefined]
        ELSE IF ~Truthy(errCode)
        THEN [outcome |-> "return", value |-> Str(NOT_FOUND_CODE)]
        ELSE [outcome |-> "return", value |-> errCode]

\* public static codeFromError
Zeturn_codeFromError(h, e) ==
    LET errCode == GetOpt(h, e, "code")
    IN  IF ~Truthy(errCode)
        THEN [outcome |-> "return", value |-> Str(NOT_FOUND_CODE)]
        ELSE [outcome |-> "return", value |-> errCode]

\* instance codeFromError defaulting only a null or undefined code (??)
codeFromError_nullishOnly(h, self, e) ==
    LET errCode == GetOpt(h, e, "code")
    IN  IF IsNullish(errCode)
        THEN [outcome |-> "return", value |-> self.notFoundCode]
        ELSE [outcome |-> "return", value |-> errCode]

\* public codeFromError
codeFromError(h, self, e) ==
    LET errCode == GetOpt(h, e, "code")
    IN  IF ~Truthy(errCode)
        THEN [outcome |-> "return", value |-> self.notFoundCode]
        ELSE [outcome |-> "return", value |-> errCode]

\* public static msgFromError
Zeturn_msgFromError(h, e) ==
    LET errMsg == GetOpt(h, e, "message")
    IN  IF ~Truthy(errMsg)
        THEN [outcome |-> "return", value |-> Str(NOT_FOUND_MSG)]
        ELSE [outcome |-> "return", value |-> errMsg]

\* public msgFromError
msgFromError(h, self, e) ==
    LET errMsg == GetOpt(h, e, "message")
    IN  IF ~Truthy(errMsg)
        THEN [outcome |-> "return", value |-> self.notFoundMsg]
        ELSE [outcome |-> "return", value |-> errMsg]

LogEntry(surface, op, r) ==
    [surface |-> surface, op |-> op, input |-> error,
     snap |-> Snap(heap, error), outcome |-> r.outcome,
     output |-> IF r.outcome = "return" THEN r.value ELSE Undefined]

\* Zeturn.codeFromError(error)
StaticCodeFromError ==
    /\ Len(log) < MaxExtract
    /\ log' = Append(log, LogEntry(0, "codeFromError", Zeturn_codeFromError(heap, error)))
    /\ UNCHANGED <<heap, error, NOT_FOUND_CODE, NOT_FOUND_MSG, instances, ctorLog, resultVars>>

\* Zeturn.msgFromError(error)
StaticMsgFromError ==
    /\ Len(log) < MaxExtract
    /\ log' = Append(log, LogEntry(0, "msgFromError", Zeturn_msgFromError(heap, error)))
    /\ UNCHANGED <<heap, error, NOT_FOUND_CODE, NOT_FOUND_MSG, instances, ctorLog, resultVars>>

\* instance codeFromError that remembers the code it found as its default
InstCodeFromError_caching(i) ==
    /\ Len(log) < MaxExtract
    /\ LET r == codeFromError(heap, instances[i], error)
       IN  /\ log' = Append(log, LogEntry(i, "codeFromError", r))
           /\ instances' = [instances EXCEPT ![i].notFoundCode = r.value]
    /\ UNCHANGED <<heap, error, NOT_FOUND_CODE, NOT_FOUND_MSG, ctorLog, resultVars>>

\* instances[i].codeFromError(error)
InstCodeFromError(i) ==
    /\ Len(log) < MaxExtract
    /\ log' = Append(log, LogEntry(i, "codeFromError", codeFromError(heap, instances[i], error)))
    /\ UNCHANGED <<heap, error, NOT_FOUND_CODE, NOT_FOUND_MSG, instances, ctorLog, resultVars>>

\* instances[i].msgFromError(error)
InstMsgFromError(i) ==
    /\ Len(log) < MaxExtract
    /\ log' = Append(log, LogEntry(i, "msgFromError", msgFromError(heap, instances[i], error)))
    /\ UNCHANGED <<heap, error, NOT_FOUND_CODE, NOT_FOUND_MSG, instances, ctorLog, resultVars>>

\* What a caller writes between the parentheses of `new Zeturn(...)`:
\* nothing, null, or an object literal.
ConfigRecords ==
    {Literal({<<"notFoundCode", c>>, <<"notFoundMsg", m>>}) :
        c \in {Absent, Str(""), Str("custom_code")},
        m \in {Absent, Str(""), Str("Custom error message")}}

CtorInputs ==
    {[literal |-> FALSE, args |-> <<>>, obj |-> EmptyObj],
     [literal |-> FALSE, args |-> <<Null>>, obj |-> EmptyObj]}
    \cup {[literal |-> TRUE, args |-> <<>>, obj |-> o] : o \in ConfigRecords}

\* the state after evaluating `new Zeturn(cfg)` on heap h with the given
\* instances and constructor history
Constructed(h, insts, clog, cfg) ==
    LET h1 == IF cfg.literal THEN Alloc(h, cfg.obj) ELSE h
        opt == IF cfg.literal THEN Ref(Len(h1)) ELSE Arg(cfg.args, 1)
        r == ZeturnCtor(h1, opt)
        ok == r.outcome = "return"
        insts1 == IF ok THEN Append(insts, r.self) ELSE insts
    IN  [heap |-> h1,
         instances |-> insts1,
         ctorLog |-> Append(clog, [opt |-> opt, optSnap |-> Snap(h1, opt),
                                   outcome |-> r.outcome,
                                   inst |-> IF ok THEN Len(insts1) ELSE 0,
                                   built |-> r.self])]

\* a caller evaluates new Zeturn(cfg)
Construct(cfg) ==
    /\ Len(ctorLog) < MaxInst
    /\ LET c == Constructed(heap, instances, ctorLog, cfg)
       IN  /\ heap' = c.heap
           /\ instances' = c.instances
           /\ ctorLog' = c.ctorLog
    /\ UNCHANGED <<error, NOT_FOUND_CODE, NOT_FOUND_MSG, log, resultVars>>

\* Values a catch block may hand to the helpers.
FieldInputs(truthyStr) ==
    {Absent, Undefined, Null, Str(""), Num(0), Bool(FALSE), Str(truthyStr), Num(42)}

ErrorObjects ==
    {Literal({<<"code", c>>, <<"message", m>>}) :
        c \in FieldInputs("X"), m \in FieldInputs("hi")}

Primitives == {Undefined, Null, Num(5), Num(0), Str("oops"), Str(""), Bool(TRUE), Bool(FALSE)}

InitStatics ==
    /\ NOT_FOUND_CODE = "zeturn_unknown"
    /\ NOT_FOUND_MSG = "zeturn: unknown"
    /\ rets = <<>>
    /\ lastOp = "init"
    /\ muts = 0
    /\ log = <<>>

\* One caught value of any shape and one instance already constructed.
InitExtract ==
    /\ InitStatics
    /\ \E o \in ErrorObjects, e \in Primitives \cup {X}, cfg \in CtorInputs :
          /\ cfg.literal
          /\ e = X \/ o = EmptyObj
          /\ error = e
          /\ LET c == Constructed(<<o>>, <<>>, <<>>, cfg)
             IN  /\ heap = c.heap
                 /\ instances = c.instances
                 /\ ctorLog = c.ctorLog

NextExtract ==
    \/ StaticCodeFromError
    \/ StaticMsgFromError
    \/ \E i \in 1..Len(instances) : InstCodeFromError(i)
    \/ \E i \in 1..Len(instances) : InstMsgFromError(i)

SpecExtract == InitExtract /\ [][NextExtract]_vars

\* No instance yet; instances are constructed as the program runs.
InitZeturn ==
    /\ InitStatics
    /\ \E o \in {EmptyObj, Literal({<<"code", Str("X")>>, <<"message", Str("hi")>>})},
          e \in {Undefined, X} :
          /\ e = X \/ o = EmptyObj
          /\ error = e
          /\ heap = <<o>>
    /\ instances = <<>>
    /\ ctorLog = <<>>

NextZeturn ==
    \/ \E cfg \in CtorInputs : Construct(cfg)
    \/ StaticCodeFromError
    \/ StaticMsgFromError
    \/ \E i \in 1..Len(instances) : InstCodeFromError(i)
    \/ \E i \in 1..Len(instances) : InstMsgFromError(i)

SpecZeturn == InitZeturn /\ [][NextZeturn]_vars

\* ================================================================ properties
Last == rets[Len(rets)]
Res(e) == heap[e.ret.n]
ErrOf(e) == heap[Res(e).err.n]
Returned(e) == e.outcome = "return" /\ IsObject(e.ret)

\* C1: right after Err(x) returns for a record x, the result has ok = false
\* and err equals x except that code is x.code when truthy and
\* "no_error_code" otherwise, and show is x.show when truthy and false
\* otherwise; msg and every other field are carried over unchanged.
C1_ErrNormalizes ==
    (lastOp = "Err" /\ IsObject(Arg(Last.args, 1))) =>
        /\ Returned(Last)
        /\ Res(Last)["ok"] = Bool(FALSE)
        /\ IsObject(Res(Last)["err"])
        /\ LET x == Last.argSnap
               err == ErrOf(Last)
           IN  /\ err["code"] = IF Truthy(x["code"]) THEN x["code"]
                                ELSE Str("no_error_code")
               /\ err["show"] = IF Truthy(x["show"]) THEN x["show"]
                                ELSE Bool(FALSE)
               /\ \A f \in Fields \ {"code", "show"} : err[f] = x[f]

C1_Witness ==
    /\ lastOp = "Err"
    /\ Last.args = <<X>>
    /\ Last.argSnap = Literal({<<"msg", Str("bad")>>, <<"code", Str("")>>})
    /\ Returned(Last)
    /\ ErrOf(Last) = Literal({<<"code", Str("no_error_code")>>,
                              <<"msg", Str("bad")>>, <<"show", Bool(FALSE)>>})

\* C2: right after Ok(data) returns, the result has ok = true and a data
\* field holding exactly the argument, undefined when it was omitted.
C2_OkCarriesData ==
    lastOp = "Ok" =>
        /\ Returned(Last)
        /\ Res(Last)["ok"] = Bool(TRUE)
        /\ Res(Last)["data"] = (IF Last.args = <<>> THEN Undefined ELSE Last.args[1])

C2_Witness ==
    /\ lastOp = "Ok"
    /\ Last.args = <<>>
    /\ Returned(Last)
    /\ Res(Last)["data"] = Undefined

\* C3: every result ever returned has one of two shapes: an Ok result has
\* ok = true, a data field and no err field; an Err result has ok = false,
\* an err field and no data field.
C3_TwoShapes ==
    \A k \in 1..Len(rets) :
        LET e == rets[k]
        IN  /\ Returned(e)
            /\ Res(e)["ok"] \in {Bool(TRUE), Bool(FALSE)}
            /\ e.fn = "Ok" =>
                  /\ Res(e)["ok"] = Bool(TRUE)
                  /\ Res(e)["data"] # Absent
                  /\ Res(e)["err"] = Absent
            /\ e.fn = "Err" =>
                  /\ Res(e)["ok"] = Bool(FALSE)
                  /\ Res(e)["err"] # Absent
                  /\ Res(e)["data"] = Absent

C3_Witness ==
    /\ Len(rets) = 2
    /\ rets[1].fn = "Ok" /\ rets[1].args = <<>>
    /\ rets[2].fn = "Err"
    /\ lastOp = "Mutate"

\* C7: Err returns for every argument, and in the record it returns
\* err.code is present and truthy and err.show is present.
C7_ErrAlwaysPopulated ==
    lastOp = "Err" =>
        /\ Returned(Last)
        /\ Res(Last)["ok"] = Bool(FALSE)
        /\ IsObject(Res(Last)["err"])
        /\ ErrOf(Last)["code"] # Absent
        /\ Truthy(ErrOf(Last)["code"])
        /\ ErrOf(Last)["show"] # Absent
        /\ ~IsNullish(ErrOf(Last)["show"])

C7_Witness ==
    /\ lastOp = "Err"
    /\ Last.args = <<Null>>
    /\ Returned(Last)
    /\ ErrOf(Last) = Literal({<<"code", Str("no_error_code")>>, <<"show", Bool(FALSE)>>})

\* C8: the record a call returns, and the err record inside an Err result,
\* is an object allocated by that call, never the object passed in.
C8_FreshOutputs ==
    \A k \in 1..Len(rets) :
        LET e == rets[k]
        IN  Returned(e) =>
              /\ e.ret.n > e.base
              /\ e.ret # Arg(e.args, 1)
              /\ e.fn = "Err" =>
                    /\ Res(e)["err"] # Arg(e.args, 1)
                    /\ Res(e)["err"].n > e.base

\* ---------------------------------------------------------------- Zeturn
CtorOf(i) == ctorLog[CHOOSE k \in 1..Len(ctorLog) : ctorLog[k].inst = i]

FieldOf(op) == IF op = "codeFromError" THEN "code" ELSE "message"

\* the default an extraction call falls back to
DefaultOf(e) ==
    IF e.surface = 0
    THEN (IF e.op = "codeFromError" THEN Str("zeturn_unknown") ELSE Str("zeturn: unknown"))
    ELSE (IF e.op = "codeFromError" THEN CtorOf(e.surface).built.notFoundCode
          ELSE CtorOf(e.surface).built.notFoundMsg)

\* C4: every extraction call returns the applicable default when its field
\* (code for codeFromError, message for msgFromError) is absent or falsy,
\* and otherwise the field's value itself, whatever its type.
C4_ExtractContract ==
    \A k \in 1..Len(log) :
        LET e == log[k]
            fv == e.snap[FieldOf(e.op)]
        IN  /\ e.outcome = "return"
            /\ e.output = IF fv # Absent /\ Truthy(fv) THEN fv ELSE DefaultOf(e)

C4_Witness ==
    /\ Len(log) = 2
    /\ log[1].op = "codeFromError" /\ log[1].surface = 1
    /\ log[1].snap["code"] = Num(42) /\ log[1].output = Num(42)
    /\ log[2].op = "msgFromError" /\ log[2].surface = 0
    /\ log[2].snap["message"] = Num(0) /\ log[2].output = Str("zeturn: unknown")

\* C6: no extraction call throws, and for null, undefined or a primitive
\* the call returns the applicable default.
C6_ExtractNeverThrows ==
    \A k \in 1..Len(log) :
        /\ log[k].outcome = "return"
        /\ ~IsObject(log[k].input) => log[k].output = DefaultOf(log[k])

C6_Witness ==
    /\ Len(log) = 2
    /\ log[1].input = Null
    /\ log[1].surface = 0 /\ log[1].op = "codeFromError"
    /\ log[1].output = Str("zeturn_unknown")
    /\ log[2].surface = 1 /\ log[2].op = "msgFromError"
    /\ log[2].output = CtorOf(1).built.notFoundMsg

\* C9: after any sequence of extraction calls, equal calls have returned
\* equal outputs, every instance still holds the defaults its constructor
\* fixed, the static defaults are the sentinels, and the inputs are as they
\* were when passed.
C9_PureAndImmutable ==
    /\ \A j, k \in 1..Len(log) :
          (log[j].surface = log[k].surface /\ log[j].op = log[k].op
             /\ log[j].input = log[k].input /\ log[j].snap = log[k].snap)
          => (log[j].outcome = log[k].outcome /\ log[j].output = log[k].output)
    /\ \A i \in 1..Len(instances) : instances[i] = CtorOf(i).built
    /\ NOT_FOUND_CODE = "zeturn_unknown"
    /\ NOT_FOUND_MSG = "zeturn: unknown"
    /\ \A k \in 1..Len(log) : Snap(heap, log[k].input) = log[k].snap

C9_Witness ==
    /\ Len(log) = 2
    /\ Len(instances) = 2
    /\ log[1].surface = 1 /\ log[2].surface = 1
    /\ log[1].op = "codeFromError" /\ log[2].op = "codeFromError"
    /\ log[1].snap["code"] = Str("X")
    /\ log[1].output = Str("X") /\ log[2].output = Str("X")

\* the defaults a configuration record resolves to
Resolved(cfg, truthyOnly) ==
    LET pick(v, d) == IF v # Absent /\ (truthyOnly => Truthy(v)) THEN v ELSE d
    IN  [notFoundCode |-> pick(cfg["notFoundCode"], Str("zeturn_unknown")),
         notFoundMsg |-> pick(cfg["notFoundMsg"], Str("zeturn: unknown"))]

\* an instance built from {} agrees with the static operations, and the
\* static defaults are untouched by any construction
EmptyConfigIsStatic ==
    /\ NOT_FOUND_CODE = "zeturn_unknown"
    /\ NOT_FOUND_MSG = "zeturn: unknown"
    /\ \A k \in 1..Len(log) :
          LET e == log[k]
          IN  (e.surface > 0 /\ CtorOf(e.surface).optSnap = EmptyObj) =>
                e.output = IF e.op = "codeFromError"
                           THEN Zeturn_codeFromError(heap, e.input).value
                           ELSE Zeturn_msgFromError(heap, e.input).value

\* C5 as stated: each default is the override whenever one is supplied.
C5_SuppliedOverrideWins ==
    /\ \A i \in 1..Len(instances) :
          instances[i] = Resolved(CtorOf(i).optSnap, FALSE)
    /\ EmptyConfigIsStatic

\* C5 amended: each default is resolved on its own, to the override when it
\* is supplied and non-empty and to the sentinel otherwise; an instance
\* built from {} agrees with the static operations; no construction changes
\* the static defaults or another instance.
C5_TruthyOverrideWins ==
    /\ \A i \in 1..Len(instances) :
          instances[i] = Resolved(CtorOf(i).optSnap, TRUE)
    /\ EmptyConfigIsStatic

C5_Witness ==
    /\ Len(instances) = 2
    /\ CtorOf(1).optSnap = Literal({<<"notFoundCode", Str("custom_code")>>})
    /\ CtorOf(2).optSnap = EmptyObj
    /\ Len(log) = 2
    /\ log[1].surface = 1 /\ log[1].op = "codeFromError"
    /\ log[1].snap = EmptyObj /\ log[1].output = Str("custom_code")
    /\ log[2].surface = 1 /\ log[2].op = "msgFromError"
    /\ log[2].output = Str("zeturn: unknown")

\* C10: no construction throws, and a construction without configuration
\* yields an instance with the sentinel defaults.
C10_CtorNeverThrows ==
    \A k \in 1..Len(ctorLog) :
        /\ ctorLog[k].outcome = "return"
        /\ IsNullish(ctorLog[k].opt) =>
              ctorLog[k].built = [notFoundCode |-> Str("zeturn_unknown"),
                                  notFoundMsg |-> Str("zeturn: unknown")]

====
